---- MODULE Spec2Model ----
(***************************************************************************)
(* Model of app.py: a Streamlit form that collects eleven clinical         *)
(* parameters, classifies the patient with a cached scikit-learn pipeline  *)
(* (scaler + LightGBM classifier) and explains the prediction with a SHAP  *)
(* waterfall chart.                                                        *)
(*                                                                         *)
(* Streamlit runs the whole script once per interaction (page load, widget *)
(* change, button press).  One action of the model is one such script run, *)
(* from line 11 to line 176, including everything it calls.                *)
(*                                                                         *)
(* Conventions                                                             *)
(*  - the selectbox options "fou"/"shi" of the source (the Chinese words   *)
(*    for no/yes) are written "No"/"Yes"; other Chinese texts are named by *)
(*    the element that shows them;                                         *)
(*  - float widgets (step 0.1) are counted in tenths: 35.0 is 350;         *)
(*  - the persisted artifact and the third-party calls on it are opaque    *)
(*    to the source: they are modelled by deterministic stand-ins of the   *)
(*    artifact on disk, and every library call may raise.                  *)
(***************************************************************************)
EXTENDS Integers, Sequences, FiniteSets, TLC

\* An optional value is a sequence of length 0 (absent) or 1 (present).
VARIABLES
    disk,       \* the artifact file final_risk_stratification_model.joblib, optional
    cache,      \* the st.cache_resource entry of load_model, optional
    loads,      \* how many times joblib.load has returned (history)
    first,      \* what the first successful load_model returned (history), optional
    widgets,    \* the session's widget state: name -> value
    edits,      \* how many widgets the session has changed
    pressed,    \* whether the last script run was triggered by the button
    raised,     \* the call that raised in the try block of the last run, optional
    prev,       \* how the run before the last one ended (history)
    globals,    \* pipeline, model, feature_names, explainer of the last run
    locals,     \* the locals main() bound in the last run: name -> value
    out,        \* the elements the last run rendered, in order
    trace       \* the calls the last run made, in order

vars ==
    <<disk, cache, loads, first, widgets, edits, pressed, raised, prev, globals,
      locals, out, trace>>

\* ------------------------------------------------------------------ bounds
\* How many generations of the artifact file can appear on disk.
MaxArtifacts == 2

\* How many widget changes a session makes before the page is reloaded.
MaxEdits == 2

\* ------------------------------------------------------------ sequences
RECURSIVE SumSeq(_)
SumSeq(s) == IF s = <<>> THEN 0 ELSE Head(s) + SumSeq(Tail(s))

RECURSIVE Concat(_)
Concat(ss) == IF ss = <<>> THEN <<>> ELSE Head(ss) \o Concat(Tail(ss))

Range(s) == {s[i] : i \in 1..Len(s)}

Count(s, x) == Cardinality({i \in 1..Len(s) : s[i] = x})

Abs(n) == IF n < 0 THEN -n ELSE n

\* --------------------------------------------------------------- schema
\* lines 28-29
feature_names ==
    <<"septic_shock", "acutephysiologyscore", "bleed_history", "heart_failure",
      "respiratory_failure", "acs", "hypertension", "albumin_max", "bun_max",
      "bilirubin_max", "creatinine_max">>

\* ------------------------------------------------------------- widgets
\* st.selectbox(..., ["No", "Yes"], index=0), lines 48, 50, 51, 54, 55, 56
selectbox_options == <<"No", "Yes">>

selectboxes ==
    {"septic_shock", "bleed_history", "heart_failure", "respiratory_failure",
     "acs", "hypertension"}

\* st.number_input(min_value, max_value, value), lines 49, 57, 60, 61, 62
number_inputs ==
    [acutephysiologyscore |-> [min_value |-> 0,   max_value |-> 100, value |-> 15],
     albumin_max          |-> [min_value |-> 100, max_value |-> 600, value |-> 350],
     bun_max              |-> [min_value |-> 5,   max_value |-> 150, value |-> 20],
     bilirubin_max        |-> [min_value |-> 1,   max_value |-> 200, value |-> 10],
     creatinine_max       |-> [min_value |-> 3,   max_value |-> 150, value |-> 12]]

WidgetNames == selectboxes \cup DOMAIN number_inputs

\* The values a widget can take.  A number_input takes any value of its
\* range; the model samples the initial value and the upper end.
WidgetValues(name) ==
    IF name \in selectboxes
    THEN Range(selectbox_options)
    ELSE {number_inputs[name].value, number_inputs[name].max_value}

\* The state of a fresh session: every selectbox at index 0, every
\* number_input at value.
DefaultWidgets ==
    [name \in WidgetNames |->
        IF name \in selectboxes THEN selectbox_options[1]
        ELSE number_inputs[name].value]

\* ------------------------------------------------------------ DataFrame
\* pd.DataFrame([data], columns=cols): one row, the columns cols in that
\* order, each filled from the dictionary entry of the same key wherever the
\* entry stands in the dictionary; a key the dictionary lacks gives NaN.
\* data is the dictionary as the sequence of its <<key, value>> items.
NaN == "NaN"

DictGet(data, key) ==
    IF \E i \in 1..Len(data) : data[i][1] = key
    THEN data[CHOOSE i \in 1..Len(data) : data[i][1] = key][2]
    ELSE NaN

DataFrame(data, cols) ==
    [columns |-> cols,
     row     |-> [i \in 1..Len(cols) |-> DictGet(data, cols[i])]]

\* pd.DataFrame(array, columns=cols), lines 123-126: the array's values by
\* position under the given names; raises when the widths differ.
FrameOfArray(array, cols) == [columns |-> cols, row |-> array]

\* ------------------------------------------------- user_input_features
\* lines 66, 68-72: 1 if <selectbox> == "Yes" else 0
YesNo(v) == IF v = "Yes" THEN 1 ELSE 0

\* lines 65-77: the dictionary, in the order it is filled
data_dict(w) ==
    <<  <<"septic_shock",         YesNo(w["septic_shock"])>>,
        <<"acutephysiologyscore", w["acutephysiologyscore"]>>,
        <<"bleed_history",        YesNo(w["bleed_history"])>>,
        <<"heart_failure",        YesNo(w["heart_failure"])>>,
        <<"respiratory_failure",  YesNo(w["respiratory_failure"])>>,
        <<"acs",                  YesNo(w["acs"])>>,
        <<"hypertension",         YesNo(w["hypertension"])>>,
        <<"albumin_max",          w["albumin_max"]>>,
        <<"bun_max",              w["bun_max"]>>,
        <<"bilirubin_max",        w["bilirubin_max"]>>,
        <<"creatinine_max",       w["creatinine_max"]>> >>

\* a copy-and-paste slip in the dictionary: heart_failure read from the
\* bleed_history widget
user_input_features_slip(w, cols) ==
    DataFrame([data_dict(w) EXCEPT ![4] = <<"heart_failure", YesNo(w["bleed_history"])>>],
              cols)

\* lines 42-80
user_input_features(w, cols) == DataFrame(data_dict(w), cols)

\* ------------------------------------------------------------- artifact
\* The artifact file holds a fitted pipeline (scaler + classifier).  The
\* source never inspects it; what it is trained on decides what the calls on
\* it return.  An artifact is a generation of the file and the number of
\* classes its classifier was fitted on: three in the documented artifact,
\* which the source does not check.
ClassCounts == {3, 4}

Artifacts == [version : 1..MaxArtifacts, classes : ClassCounts]

Some(x) == <<x>>

Absent == <<>>

IsSome(o) == o # <<>>

The(o) == o[1]

\* The library calls of the try block; any of them may raise.
LibraryCalls ==
    {"pipeline.predict", "pipeline.predict_proba", "scaler.transform",
     "explainer", "shap.plots.waterfall"}

NoFault == "none"

\* The fitted pipeline checks the frame against the feature names it was
\* fitted with and raises on a frame of other columns.
pipeline_accepts(frame) == frame.columns = feature_names

\* pipeline.predict(frame)[0]: a deterministic function of the artifact and
\* of the row, position by position.  Stand-in for the fitted classifier.
pipeline_predict(art, frame) ==
    (art.version + SumSeq([i \in 1..Len(frame.row) |-> i * frame.row[i]]))
        % art.classes

\* pipeline.predict_proba(frame)[0]: one probability per fitted class, in
\* units of 1/10000, most of the mass on the predicted class.  Stand-in.
pipeline_predict_proba(art, frame) ==
    LET cls      == pipeline_predict(art, frame)
        other(c) == 500 + 100 * c + (SumSeq(frame.row) % 5)
        rest     == SumSeq([i \in 1..art.classes |->
                               IF i - 1 = cls THEN 0 ELSE other(i - 1)])
    IN  [i \in 1..art.classes |-> IF i - 1 = cls THEN 10000 - rest ELSE other(i - 1)]

\* pipeline.named_steps['scaler'].transform(frame): the fitted per-column
\* affine standardisation, returned as a bare array.  Stand-in: an affine
\* map that is not the identity.
scaler_transform(art, frame) == [i \in 1..Len(frame.row) |-> 2 * frame.row[i] - 1]

\* explainer(frame): one signed contribution per feature and fitted class,
\* computed by the explainer's model from the frame it is given.  Stand-in
\* for TreeExplainer's Shapley values.
explainer_call(art, frame) ==
    [feature_names |-> frame.columns,
     data          |-> frame.row,
     values        |-> [i \in 1..Len(frame.row) |->
                          [c \in 0..(art.classes - 1) |->
                              ((frame.row[i] * (c + 2) + i + art.version) % 9) - 4]]]

\* shap_values[0, :, cls], line 141: the contributions to one class
class_slice(shap_values, cls) ==
    [feature_names |-> shap_values.feature_names,
     data          |-> shap_values.data,
     output        |-> cls,
     values        |-> [i \in 1..Len(shap_values.values) |-> shap_values.values[i][cls]]]

\* ------------------------------------------------------------ waterfall
\* line 142
max_display == 10

\* np.argsort(-np.abs(values)): the positions by descending absolute value,
\* equal values in their order of position.
RECURSIVE ArgsortAbs(_, _)
ArgsortAbs(values, left) ==
    IF left = {} THEN <<>>
    ELSE LET top == CHOOSE i \in left :
                        \A j \in left :
                            \/ Abs(values[i]) > Abs(values[j])
                            \/ Abs(values[i]) = Abs(values[j]) /\ i <= j
         IN  <<top>> \o ArgsortAbs(values, left \ {top})

\* shap.plots.waterfall(slice, max_display=n, show=False), lines 140-144.
\* The chart has min(n, len) rows.  When the slice has more values than
\* rows, the last row is not a feature: it is "k other features", the sum of
\* every contribution the rows above leave out, so that n - 1 features are
\* shown by name.  Rows are listed from the top of the chart down.
waterfall_plot(slice, n) ==
    LET len            == Len(slice.values)
        order          == ArgsortAbs(slice.values, 1..len)
        num_features   == IF n < len THEN n ELSE len
        num_individual == IF num_features = len THEN num_features
                          ELSE num_features - 1
        named          == [i \in 1..num_individual |->
                              [feature |-> slice.feature_names[order[i]],
                               count   |-> 1,
                               value   |-> slice.values[order[i]]]]
        grouped        == [feature |-> "other features",
                           count   |-> len - num_features + 1,
                           value   |-> SumSeq([i \in 1..(len - num_individual) |->
                                          slice.values[order[num_individual + i]]])]
    IN  [output |-> slice.output,
         data   |-> slice.data,
         rows   |-> IF num_features < len THEN Append(named, grouped) ELSE named]

\* ------------------------------------------------------------ presenter
\* a slip in the table: the labels of classes 1 and 2 exchanged
risk_labels_swapped == (0 :> "low risk") @@ (1 :> "high risk") @@ (2 :> "medium risk")

\* line 96
risk_labels == (0 :> "low risk") @@ (1 :> "medium risk") @@ (2 :> "high risk")

\* line 97
risk_colors == (0 :> "green") @@ (1 :> "orange") @@ (2 :> "red")

\* f"{p * 100:.1f}%", line 115: a probability in units of 1/10000 as a
\* percentage with one decimal, in tenths of a percent
Percent1(p) == (p + 5) \div 10

\* An element of the page: what rendered it and what it shows.
Element(kind, value) == [kind |-> kind, value |-> value]

Kinds(elements) == [i \in 1..Len(elements) |-> elements[i].kind]

\* ------------------------------------------------------------ try block
\* One statement of the try block of main(): the call it makes, whether the
\* call raises and with what, and, when it returns, the elements it renders
\* and the locals it binds.
Step(call, raises, exc, emits, binds) ==
    [call   |-> call,
     raises |-> raises,
     exc    |-> exc,
     emits  |-> IF raises THEN <<>> ELSE emits,
     binds  |-> IF raises THEN <<>> ELSE binds]

NoBinds == <<>>

Binds(name, value) == name :> value

\* risk_labels[cls] and risk_colors[cls] raise KeyError on a missing key.
HasLabel(cls) == cls \in DOMAIN risk_labels

HasColor(cls) == cls \in DOMAIN risk_colors

\* the success notice of line 100 rendered before the prediction is made
classify_steps_after_notice(art, input_df, fault) ==
    <<Step("st.success", FALSE, "", <<Element("success", "done")>>, NoBinds),
      Step("pipeline.predict",
           fault = "pipeline.predict" \/ ~pipeline_accepts(input_df), "predict",
           <<>>, Binds("prediction_class", pipeline_predict(art, input_df))),
      Step("pipeline.predict_proba",
           fault = "pipeline.predict_proba" \/ ~pipeline_accepts(input_df), "predict_proba",
           <<>>, Binds("prediction_proba", pipeline_predict_proba(art, input_df)))>>

\* lines 92-93
classify_steps(art, input_df, fault) ==
    <<Step("pipeline.predict",
           fault = "pipeline.predict" \/ ~pipeline_accepts(input_df), "predict",
           <<>>, Binds("prediction_class", pipeline_predict(art, input_df))),
      Step("pipeline.predict_proba",
           fault = "pipeline.predict_proba" \/ ~pipeline_accepts(input_df), "predict_proba",
           <<>>, Binds("prediction_proba", pipeline_predict_proba(art, input_df)))>>

\* lines 113-116: one row per entry of prediction_proba, labelled
\* risk_labels[i] for its position i
probabilities_df(proba) ==
    [i \in 1..Len(proba) |->
        [label |-> risk_labels[i - 1], probability |-> Percent1(proba[i])]]

\* lines 100-117
present_steps(cls, proba) ==
    <<Step("st.success", FALSE, "", <<Element("success", "done")>>, NoBinds),
      Step("st.metric", ~HasLabel(cls), "KeyError",
           <<Element("metric", [class |-> cls, label |-> risk_labels[cls]])>>, NoBinds),
      Step("st.write", ~HasColor(cls) \/ ~HasLabel(cls), "KeyError",
           <<Element("colored_text",
                     [class |-> cls, label |-> risk_labels[cls],
                      color |-> risk_colors[cls]])>>, NoBinds),
      Step("st.subheader", FALSE, "", <<Element("subheader", "probabilities")>>, NoBinds),
      Step("probabilities_df",
           \E i \in 1..Len(proba) : (i - 1) \notin DOMAIN risk_labels, "KeyError",
           <<>>, Binds("probabilities_df", probabilities_df(proba))),
      Step("st.table",
           \E i \in 1..Len(proba) : (i - 1) \notin DOMAIN risk_labels, "KeyError",
           <<Element("table", probabilities_df(proba))>>, NoBinds)>>

\* the explainer given the frame as collected instead of the scaled one
explain_input_raw(art, input_df, cols) == input_df

\* lines 121-126
explain_input(art, input_df, cols) == FrameOfArray(scaler_transform(art, input_df), cols)

\* line 141: the class whose contributions are charted
explained_class(cls) == cls

\* lines 121-128: the record is scaled, framed under the schema's names and
\* given to the explainer
scale_steps(art, explainer, input_df, cols, fault) ==
    <<Step("scaler.transform",
           fault = "scaler.transform" \/ ~pipeline_accepts(input_df), "transform",
           <<>>, Binds("scaled_input", scaler_transform(art, input_df))),
      Step("scaled_input_df", Len(input_df.row) # Len(cols), "ValueError",
           <<>>, Binds("scaled_input_df", explain_input(art, input_df, cols))),
      Step("explainer", fault = "explainer", "explainer",
           <<>>, Binds("shap_values",
                       explainer_call(explainer, explain_input(art, input_df, cols))))>>

\* lines 130-137
caption_steps(cls) ==
    <<Step("st.subheader", FALSE, "", <<Element("subheader", "attribution")>>, NoBinds),
      Step("st.markdown", FALSE, "", <<Element("markdown", "colour legend")>>, NoBinds),
      Step("st.write", ~HasLabel(cls), "KeyError",
           <<Element("caption", [class |-> cls, label |-> risk_labels[cls]])>>, NoBinds)>>

\* lines 139-144: the slice of a class the explainer has no values for is an
\* IndexError
plot_steps(shap_values, cls, fault) ==
    <<Step("plt.subplots", FALSE, "", <<>>, Binds("fig", "empty")),
      Step("shap.plots.waterfall",
           fault = "shap.plots.waterfall"
               \/ explained_class(cls) \notin DOMAIN shap_values.values[1],
           "waterfall",
           <<>>, Binds("fig", waterfall_plot(class_slice(shap_values, explained_class(cls)),
                                             max_display)))>>

\* line 145
show_steps(fig) ==
    <<Step("st.pyplot", FALSE, "", <<Element("pyplot", fig)>>, NoBinds)>>

\* the handler rendering the message twice
except_handler_twice(exc) == <<Element("error", exc), Element("error", exc)>>

\* lines 148-149: st.error(f"...: {str(e)}")
except_handler(exc) == <<Element("error", exc)>>

\* The index of the first statement that raises, or 0.
FirstRaise(steps) ==
    IF \E k \in 1..Len(steps) : steps[k].raises
    THEN CHOOSE k \in 1..Len(steps) :
            steps[k].raises /\ \A j \in 1..(k - 1) : ~steps[j].raises
    ELSE 0

RECURSIVE MergeBinds(_)
MergeBinds(steps) ==
    IF steps = <<>> THEN NoBinds
    ELSE steps[Len(steps)].binds @@ MergeBinds(SubSeq(steps, 1, Len(steps) - 1))

\* a handler that replaces what the block rendered by the message
run_try_retracting(steps) ==
    LET k    == FirstRaise(steps)
        done == IF k = 0 THEN steps ELSE SubSeq(steps, 1, k - 1)
    IN  [out    |-> IF k = 0 THEN Concat([i \in 1..Len(done) |-> done[i].emits])
                    ELSE except_handler(steps[k].exc),
         trace  |-> [i \in 1..(IF k = 0 THEN Len(steps) ELSE k) |-> steps[i].call],
         locals |-> MergeBinds(done),
         raised |-> IF k = 0 THEN Absent ELSE Some(steps[k].call)]

\* lines 89-149: the statements run in order; the first one that raises
\* ends the block, and the handler renders its message after what the
\* statements before it rendered
run_try(steps) ==
    LET k    == FirstRaise(steps)
        done == IF k = 0 THEN steps ELSE SubSeq(steps, 1, k - 1)
    IN  [out    |-> Concat([i \in 1..Len(done) |-> done[i].emits])
                    \o (IF k = 0 THEN <<>> ELSE except_handler(steps[k].exc)),
         trace  |-> [i \in 1..(IF k = 0 THEN Len(steps) ELSE k) |-> steps[i].call],
         locals |-> MergeBinds(done),
         raised |-> IF k = 0 THEN Absent ELSE Some(steps[k].call)]

\* The statements head, then the statements rest unless one of head raises:
\* a statement after one that raises is never reached.
Then(head, rest) == IF FirstRaise(head) # 0 THEN head ELSE head \o rest

\* lines 89-145: the statements of the try block
try_steps(g, input_df, fault) ==
    LET classify == classify_steps(g.pipeline, input_df, fault)
        cls      == MergeBinds(classify)["prediction_class"]
        proba    == MergeBinds(classify)["prediction_proba"]
        scale    == scale_steps(g.pipeline, g.explainer, input_df, g.feature_names, fault)
        plot     == plot_steps(MergeBinds(scale)["shap_values"], cls, fault)
    IN  Then(classify,
        Then(present_steps(cls, proba),
        Then(scale,
        Then(caption_steps(cls),
        Then(plot,
             show_steps(MergeBinds(plot)["fig"]))))))

\* ----------------------------------------------------------------- main
\* the block run on every rerun, pressed or not
st_button_always(clicked) == TRUE

\* line 88: st.button returns True only in the rerun its click triggered
st_button(clicked) == clicked

\* lines 43-62: the header and the eleven widgets, column by column
form_elements ==
    <<Element("header", "inputs"),
      Element("selectbox", "septic_shock"),
      Element("number_input", "acutephysiologyscore"),
      Element("selectbox", "bleed_history"),
      Element("selectbox", "heart_failure"),
      Element("selectbox", "respiratory_failure"),
      Element("selectbox", "acs"),
      Element("selectbox", "hypertension"),
      Element("number_input", "albumin_max"),
      Element("number_input", "bun_max"),
      Element("number_input", "bilirubin_max"),
      Element("number_input", "creatinine_max")>>

\* lines 84-149
main(g, w, clicked, fault) ==
    LET input_df == user_input_features(w, g.feature_names)
        form     == [out    |-> form_elements \o <<Element("button", "assess")>>,
                     trace  |-> <<"user_input_features", "st.button">>,
                     locals |-> Binds("input_df", input_df),
                     raised |-> Absent]
    IN  IF st_button(clicked)
        THEN LET try == run_try(try_steps(g, input_df, fault))
             IN  [out    |-> form.out \o try.out,
                  trace  |-> form.trace \o try.trace,
                  locals |-> try.locals @@ form.locals,
                  raised |-> try.raised]
        ELSE form

\* ----------------------------------------------------------- load_model
Handle(art, n) ==
    [pipeline |-> art, model |-> art, feature_names |-> feature_names, load |-> n]

\* the function without its @st.cache_resource: every call deserializes
load_model_uncached(c, d, n) ==
    IF d = Absent
    THEN [raised |-> TRUE, value |-> Absent, cache |-> c, loads |-> n,
          trace |-> <<"load_model", "joblib.load">>]
    ELSE [raised |-> FALSE, value |-> Some(Handle(The(d), n + 1)), cache |-> c,
          loads |-> n + 1, trace |-> <<"load_model", "joblib.load">>]

\* lines 21-30, under @st.cache_resource: the body runs when the cache holds
\* no entry, and its return value becomes the entry; a call that raises
\* leaves no entry.  joblib.load raises when the file is missing.  c is the
\* cache, d the file, n the loads so far.
load_model(c, d, n) ==
    IF IsSome(c)
    THEN [raised |-> FALSE, value |-> c, cache |-> c, loads |-> n,
          trace |-> <<"load_model">>]
    ELSE IF d = Absent
    THEN [raised |-> TRUE, value |-> Absent, cache |-> c, loads |-> n,
          trace |-> <<"load_model", "joblib.load">>]
    ELSE [raised |-> FALSE, value |-> Some(Handle(The(d), n + 1)),
          cache |-> Some(Handle(The(d), n + 1)), loads |-> n + 1,
          trace |-> <<"load_model", "joblib.load">>]

\* --------------------------------------------------------------- script
\* lines 11-16
page_top == <<Element("title", "tool"), Element("markdown", "instructions")>>

\* lines 153-172
sidebar ==
    <<Element("sidebar.header", "about"), Element("sidebar.markdown", "about"),
      Element("sidebar.header", "usage"), Element("sidebar.markdown", "usage"),
      Element("sidebar.warning", "clinical disclaimer")>>

\* An exception no handler catches ends the script run; Streamlit shows it
\* in place of the rest of the page and the session goes on.
uncaught(exc) == <<Element("exception", exc)>>

\* lines 34 and 38: the globals of a run in which load_model returned h;
\* the explainer is built from h's model on every run
script_globals(h) ==
    [pipeline |-> h.pipeline, model |-> h.model, feature_names |-> h.feature_names,
     load |-> h.load, explainer |-> h.model]

\* lines 11-176 after load_model: the page top, the sidebar, then main()
script_result(loaded, m) ==
    [cache |-> loaded.cache, loads |-> loaded.loads, globals |-> loaded.value,
     locals |-> m.locals, raised |-> m.raised,
     out |-> page_top \o sidebar \o m.out,
     trace |-> loaded.trace \o <<"shap.TreeExplainer", "main">> \o m.trace]

\* lines 11-176, load_model having returned or raised
script_loaded(loaded, w, clicked, fault) ==
    IF loaded.raised
    THEN [cache |-> loaded.cache, loads |-> loaded.loads, globals |-> Absent,
          locals |-> NoBinds, raised |-> Absent,
          out |-> page_top \o uncaught("joblib.load"), trace |-> loaded.trace]
    ELSE script_result(loaded,
                       main(script_globals(The(loaded.value)), w, clicked, fault))

\* lines 11-176: one run of the script
script(w, clicked, fault, c, d, n) ==
    script_loaded(load_model(c, d, n), w, clicked, fault)

\* -------------------------------------------------------------- actions
\* The library calls a run can reach: the block under the button only when
\* the button was pressed.
Faults(clicked) == IF clicked THEN LibraryCalls \cup {NoFault} ELSE {NoFault}

OnPage(kinds, name) ==
    \E i \in 1..Len(out) : out[i].kind \in kinds /\ out[i].value = name

\* How the last run ended.
Outcome ==
    IF ~pressed THEN "no submission"
    ELSE IF IsSome(raised) THEN "submission raised"
    ELSE "submission done"

\* One script run on the widget state w after e changes, triggered by the
\* button or not, in which the library call fault raises when it is reached.
Run(w, e, clicked, fault) ==
    \E r \in {script(w, clicked, fault, cache, disk, loads)} :
        /\ cache'   = r.cache
        /\ loads'   = r.loads
        /\ first'   = IF first = Absent THEN r.globals ELSE first
        /\ widgets' = w
        /\ edits'   = e
        /\ pressed' = clicked
        /\ raised'  = r.raised
        /\ prev'    = Outcome
        /\ globals' = r.globals
        /\ locals'  = r.locals
        /\ out'     = r.out
        /\ trace'   = r.trace
        /\ UNCHANGED disk

\* The page is opened or reloaded: a fresh session, every widget at its
\* initial value.
Reload ==
    \E fault \in Faults(FALSE) : Run(DefaultWidgets, 0, FALSE, fault)

\* The user sets one widget shown on the page to another value.
ChangeWidget ==
    \E name \in WidgetNames :
        /\ edits < MaxEdits
        /\ OnPage({"selectbox", "number_input"}, name)
        /\ \E v \in WidgetValues(name) \ {widgets[name]} :
            \E fault \in Faults(FALSE) :
                Run([widgets EXCEPT ![name] = v], edits + 1, FALSE, fault)

\* The user presses the button shown on the page.
PressButton ==
    /\ OnPage({"button"}, "assess")
    /\ \E fault \in Faults(TRUE) : Run(widgets, edits, TRUE, fault)

\* The artifact file is replaced by its next generation while the process
\* runs.
ReplaceArtifact ==
    LET v == IF disk = Absent THEN 0 ELSE The(disk).version
    IN  /\ v < MaxArtifacts
        /\ \E a \in Artifacts : a.version = v + 1 /\ disk' = Some(a)
        /\ UNCHANGED <<cache, loads, first, widgets, edits, pressed, raised, prev, globals,
                       locals, out, trace>>

Init ==
    /\ disk \in {Absent} \cup {Some(a) : a \in {b \in Artifacts : b.version = 1}}
    /\ cache = Absent
    /\ loads = 0
    /\ first = Absent
    /\ widgets = DefaultWidgets
    /\ edits = 0
    /\ pressed = FALSE
    /\ raised = Absent
    /\ prev = "no submission"
    /\ globals = Absent
    /\ locals = NoBinds
    /\ out = <<>>
    /\ trace = <<>>

Next == Reload \/ ChangeWidget \/ PressButton \/ ReplaceArtifact

Spec == Init /\ [][Next]_vars

\* ============================================================== claims
HasLocal(name) == name \in DOMAIN locals

\* What the block under the button rendered in the last run.
AfterButton ==
    IF \E i \in 1..Len(out) : out[i].kind = "button"
    THEN SubSeq(Kinds(out),
                (CHOOSE i \in 1..Len(out) : out[i].kind = "button") + 1, Len(out))
    ELSE <<>>

IsPrefix(s, t) == Len(s) <= Len(t) /\ SubSeq(t, 1, Len(s)) = s

\* The value the widget name contributes to the record: a selectbox 1 for
\* "Yes" and 0 for "No", a number_input the number entered.
WidgetValue(w, name) ==
    IF name \in selectboxes THEN (IF w[name] = "Yes" THEN 1 ELSE 0) ELSE w[name]

Rotate(s, k) == [i \in 1..Len(s) |-> s[((i + k - 1) % Len(s)) + 1]]

Reverse(s) == [i \in 1..Len(s) |-> s[Len(s) + 1 - i]]

\* C1: in every run that collects the inputs, the record has exactly the
\* eleven columns septic_shock, acutephysiologyscore, bleed_history,
\* heart_failure, respiratory_failure, acs, hypertension, albumin_max,
\* bun_max, bilirubin_max, creatinine_max in that order, each column holds
\* the value of the widget of its name (a selectbox as 0/1), and filling the
\* dictionary in any rotated or reversed order gives the same record.
TheoremC1 ==
    HasLocal("input_df") =>
        LET df == locals["input_df"]
        IN  /\ df.columns =
                <<"septic_shock", "acutephysiologyscore", "bleed_history",
                  "heart_failure", "respiratory_failure", "acs", "hypertension",
                  "albumin_max", "bun_max", "bilirubin_max", "creatinine_max">>
            /\ Len(df.row) = 11
            /\ \A i \in 1..11 : df.row[i] = WidgetValue(widgets, df.columns[i])
            /\ \A k \in 0..10 :
                /\ DataFrame(Rotate(data_dict(widgets), k), globals[1].feature_names) = df
                /\ DataFrame(Reverse(Rotate(data_dict(widgets), k)),
                             globals[1].feature_names) = df

\* A record collected from a form on which a selectbox and a number_input
\* were changed.
WitnessC1 ==
    /\ HasLocal("input_df")
    /\ widgets["heart_failure"] = "Yes"
    /\ widgets["bun_max"] = 150
    /\ widgets["bleed_history"] = "No"
    /\ locals["input_df"].row[4] = 1
    /\ locals["input_df"].row[9] = 150

\* The calls of a run that reaches the try block, after load_model: the
\* explainer, the input collection, the button, the first prediction call.
FullChainStart ==
    <<"shap.TreeExplainer", "main", "user_input_features", "st.button",
      "pipeline.predict">>

\* C3: in a submission in which a statement of the try block raised, the
\* handler of main() caught it (Streamlit shows no uncaught exception), the
\* page shows exactly one error message, as its last element, the call that
\* raised ends the run and no library call was made twice, and the button is
\* still on the page (the guard of PressButton); every submission, one made
\* after a failed one included, starts again from load_model and the input
\* collection.
TheoremC3 ==
    /\ (pressed /\ IsSome(raised)) =>
        /\ Count(Kinds(out), "error") = 1
        /\ out[Len(out)].kind = "error"
        /\ Count(Kinds(out), "exception") = 0
        /\ trace[Len(trace)] = The(raised)
        /\ \A call \in LibraryCalls : Count(trace, call) <= 1
        /\ OnPage({"button"}, "assess")
    /\ pressed =>
        \/ IsPrefix(<<"load_model">> \o FullChainStart, trace)
        \/ IsPrefix(<<"load_model", "joblib.load">> \o FullChainStart, trace)

\* A submission that raised in the attribution, made right after a
\* submission that raised in the classification.
WitnessC3 ==
    /\ pressed
    /\ raised = Some("explainer")
    /\ prev = "submission raised"
    /\ Count(Kinds(out), "error") = 1

\* C4: when pipeline.predict or pipeline.predict_proba raises in a
\* submission, the block under the button renders the error message and
\* nothing else (no success notice, label, coloured text, table or chart),
\* and each of the two calls was made at most once.
TheoremC4 ==
    (pressed /\ raised \in {Some("pipeline.predict"), Some("pipeline.predict_proba")}) =>
        /\ AfterButton = <<"error">>
        /\ Count(trace, "pipeline.predict") = 1
        /\ Count(trace, "pipeline.predict_proba") <= 1
        /\ \A e \in {"success", "metric", "colored_text", "table", "pyplot"} :
              Count(Kinds(out), e) = 0

\* A submission in which predict returned and predict_proba raised.
WitnessC4 ==
    /\ pressed
    /\ raised = Some("pipeline.predict_proba")
    /\ HasLocal("prediction_class")
    /\ AfterButton = <<"error">>

\* The label and colour of each class, as the claim gives them.
LabelOf(cls) ==
    CASE cls = 0 -> "low risk" [] cls = 1 -> "medium risk" [] cls = 2 -> "high risk"

ColorOf(cls) ==
    CASE cls = 0 -> "green" [] cls = 1 -> "orange" [] cls = 2 -> "red"

\* C5: the two lookups are defined on 0, 1 and 2 and nowhere else, and every
\* risk label, coloured text, caption and probability-table row on the page
\* is for a class among 0, 1, 2 and carries the label (and colour) of that
\* class: low risk/green, medium risk/orange, high risk/red.
TheoremC5 ==
    /\ DOMAIN risk_labels = {0, 1, 2}
    /\ DOMAIN risk_colors = {0, 1, 2}
    /\ \A i \in 1..Len(out) :
        /\ out[i].kind \in {"metric", "colored_text", "caption"} =>
            /\ out[i].value.class \in {0, 1, 2}
            /\ out[i].value.label = LabelOf(out[i].value.class)
        /\ out[i].kind = "colored_text" =>
            out[i].value.color = ColorOf(out[i].value.class)
        /\ out[i].kind = "table" =>
            /\ Len(out[i].value) <= 3
            /\ \A r \in 1..Len(out[i].value) : out[i].value[r].label = LabelOf(r - 1)

\* A page showing class 2 as high risk in red, with its three-row table,
\* under a classifier fitted on three classes.
WitnessC5 ==
    /\ pressed
    /\ HasLocal("prediction_class")
    /\ locals["prediction_class"] = 2
    /\ \E i \in 1..Len(out) :
        out[i].kind = "colored_text" /\ out[i].value.color = "red"
    /\ \E i \in 1..Len(out) : out[i].kind = "table" /\ Len(out[i].value) = 3

\* C6: joblib.load returns at most once in the life of the process, and from
\* then on every run receives the handle that load returned, which is also
\* what the cache holds: no run replaces or rewrites it, whatever happens to
\* the file on disk.
TheoremC6 ==
    /\ loads <= 1
    /\ IsSome(first) =>
        /\ loads = 1
        /\ The(first).load = 1
        /\ cache = first
        /\ globals = first
    /\ first = Absent => (cache = Absent /\ globals = Absent /\ loads = 0)

\* A submission served from the cached handle of generation 1 after the
\* file on disk was replaced by generation 2.
WitnessC6 ==
    /\ pressed
    /\ raised = Absent
    /\ IsSome(disk) /\ The(disk).version = 2
    /\ IsSome(cache) /\ The(cache).pipeline.version = 1
    /\ loads = 1

Succeeded == pressed /\ raised = Absent /\ HasLocal("fig")

TheChart == out[Len(out)].value

Descending(rows) ==
    \A i \in 1..Len(rows), j \in 1..Len(rows) :
        i < j => Abs(rows[i].value) >= Abs(rows[j].value)

\* What a successful submission charts, whatever the rows are: the
\* contributions the explainer computes from the scaled record, for the
\* class predicted in the same submission.
ChartOfScaledRecordAndPredictedClass ==
    LET df     == locals["input_df"]
        scaled == FrameOfArray(scaler_transform(The(globals).pipeline, df),
                               The(globals).feature_names)
    IN  /\ out[Len(out)].kind = "pyplot"
        /\ scaled # df
        /\ locals["scaled_input_df"] = scaled
        /\ locals["shap_values"] = explainer_call(The(globals).model, scaled)
        /\ TheChart.data = scaled.row
        /\ TheChart.output = locals["prediction_class"]

\* C8 as stated: the chart of a successful submission is computed from the
\* scaled record for the predicted class, has at most 10 entries, every
\* entry is one of the eleven schema features, and the entries are in
\* descending order of absolute contribution.
CounterexampleC8 ==
    Succeeded =>
        /\ ChartOfScaledRecordAndPredictedClass
        /\ Len(TheChart.rows) <= 10
        /\ \A r \in 1..Len(TheChart.rows) :
              TheChart.rows[r].feature \in Range(feature_names)
        /\ Descending(TheChart.rows)

\* C8, amended: the chart of a successful submission is computed from the
\* scaled record for the predicted class and has exactly 10 rows: nine
\* distinct schema features with their contributions to that class, in
\* descending order of absolute contribution, then one row that is no
\* feature but the sum of the two remaining contributions, neither of which
\* exceeds the ninth in absolute value.
TheoremC8 ==
    Succeeded =>
        LET rows   == TheChart.rows
            values == locals["shap_values"].values
            cls    == locals["prediction_class"]
            named  == SubSeq(rows, 1, 9)
            Pos(f) == CHOOSE i \in 1..11 : feature_names[i] = f
            shown  == {Pos(named[r].feature) : r \in 1..9}
        IN  /\ ChartOfScaledRecordAndPredictedClass
            /\ Len(rows) = 10
            /\ \A r \in 1..9 :
                /\ rows[r].feature \in Range(feature_names)
                /\ rows[r].count = 1
                /\ rows[r].value = values[Pos(rows[r].feature)][cls]
            /\ Cardinality(shown) = 9
            /\ Descending(named)
            /\ rows[10].feature \notin Range(feature_names)
            /\ rows[10].count = 2
            /\ rows[10].value =
                  SumSeq([i \in 1..11 |-> IF i \in shown THEN 0 ELSE values[i][cls]])
            /\ \A i \in (1..11) \ shown : Abs(values[i][cls]) <= Abs(rows[9].value)

\* A successful submission whose chart is for class 1 and whose grouped last
\* row is not zero.
WitnessC8 ==
    /\ Succeeded
    /\ locals["prediction_class"] = 1
    /\ Len(TheChart.rows) = 10
    /\ TheChart.rows[10].value # 0
    /\ Abs(TheChart.rows[1].value) > Abs(TheChart.rows[9].value)

ResultKinds ==
    {"success", "metric", "colored_text", "table", "caption", "pyplot", "error"}

\* C9: a run that the button did not trigger calls neither the pipeline nor
\* the scaler, the explainer or the chart, binds no prediction and no
\* attribution, and leaves none of the earlier submission's results on the
\* page: no notice, label, coloured text, table, caption, chart or error.
TheoremC9 ==
    ~pressed =>
        /\ \A call \in LibraryCalls : Count(trace, call) = 0
        /\ DOMAIN locals \subseteq {"input_df"}
        /\ \A i \in 1..Len(out) : out[i].kind \notin ResultKinds
        /\ AfterButton = <<>>
        /\ raised = Absent

\* The page after a widget change that followed a successful submission.
WitnessC9 ==
    /\ ~pressed
    /\ prev = "submission done"
    /\ edits > 0
    /\ HasLocal("input_df")
    /\ OnPage({"button"}, "assess")

\* The headings and the caption the attribution renders before the chart.
AttributionHeadings == <<"subheader", "markdown", "caption">>

\* C10: when the classification returned and the scaler, the explainer or
\* the chart raises, the block under the button shows the success notice,
\* the risk label, the coloured text and the probability table (under its
\* heading) in that order, then at most the headings of the attribution,
\* then the error message, and no chart.
TheoremC10 ==
    (pressed /\ raised \in {Some("scaler.transform"), Some("explainer"),
                            Some("shap.plots.waterfall")}) =>
        /\ \E n \in 0..Len(AttributionHeadings) :
            /\ AfterButton =
                  <<"success", "metric", "colored_text", "subheader", "table">>
                  \o SubSeq(AttributionHeadings, 1, n) \o <<"error">>
            /\ n = (IF raised = Some("shap.plots.waterfall") THEN 3 ELSE 0)
        /\ SelectSeq(AfterButton,
                     LAMBDA k : k \in {"success", "metric", "colored_text", "table",
                                       "error", "pyplot"})
              = <<"success", "metric", "colored_text", "table", "error">>
        /\ HasLocal("prediction_class") /\ HasLocal("prediction_proba")

\* A submission whose chart raised after the table and the headings of the
\* attribution were rendered.
WitnessC10 ==
    /\ pressed
    /\ raised = Some("shap.plots.waterfall")
    /\ Count(AfterButton, "table") = 1
    /\ Count(AfterButton, "caption") = 1
    /\ AfterButton[Len(AfterButton)] = "error"

====
